---- MODULE Spec2Model ----
(***************************************************************************)
(* Model of the sync engine of gomatrix's Client: Sync / StopSync, the     *)
(* generation counter syncingID, the Store cursor and filter id, and the   *)
(* transport primitive MakeRequest with its 429 retry.                     *)
(***************************************************************************)
EXTENDS Integers, Sequences, FiniteSets, TLC

\* ------------------------------------------------------------------ bounds
\* Cap on the increments of the generation counter in a run: Sync and
\* StopSync are not called beyond it.
MaxGen == 3
\* Cap on the number of 429 answers the server gives to one MakeRequest.
MaxRetry == 1
\* Cap on the state events of one joined room in a snapshot.
MaxEvents == 2
\* Cap on the snapshots handed to the Event Router in a run.
MaxSnapshots == 2
\* Cap on the long-polls counted after an invocation was superseded.
MaxPolls == 2

\* ------------------------------------------------------- program constants
\* The timeout (ms) Sync passes to SyncRequest.
SyncTimeout == 30000
\* MakeRequest's default 429 back-off, in seconds.
DefaultSleep == 5

\* The Sync invocations of a run, each on a goroutine of its own: two, which
\* may overlap or follow one another.
Procs == {1, 2}

\* ------------------------------------------------------------------ values
\* A Go error value; NoErr is nil.
Err(type, code) == [type |-> type, code |-> code]
NoErr == Err("nil", 0)
\* cli.Client.Do failed.
ErrTransport == Err("transport", 0)
\* The JSON decoder failed on a response body.
ErrDecode == Err("decode", 0)
\* HandleRetry's errors.New("invalid retry-after data").
ErrRetryAfter == Err("invalid retry-after data", 0)
\* An error of the Syncer's own: from OnFailedSync, from ProcessResponse.
ErrHook == Err("hook", 0)
ErrProcess == Err("process", 0)
\* The RespError a response body unmarshals to, identified by its errcode.
RespError(errcode) == [type |-> "RespError", code |-> 0, errcode |-> errcode]

\* Cursors and filter ids the server can issue ("" is Go's empty string).
Cursors == {"a", "b"}
FilterIDs == {"f"}

\* A decoded response pointer (*RespSync, *RespCreateFilter): nil, or a struct
\* of which only the one field of interest (NextBatch, FilterID) is kept.
NilPtr == << >>
Struct(v) == <<v>>
Field(r) == r[1]

\* A response body: not JSON ("bad"), the JSON literal null, or a JSON object
\* that carries the field of interest (next_batch, filter_id) with value val
\* or lacks it (Absent), and likewise an errcode.
Absent == "<absent>"
BadBody == [kind |-> "bad", val |-> Absent, errcode |-> Absent]
NullBody == [kind |-> "null", val |-> Absent, errcode |-> Absent]
ObjBody(v) == [kind |-> "obj", val |-> v, errcode |-> Absent]
ErrBody(c) == [kind |-> "obj", val |-> Absent, errcode |-> c]
NoBody == [kind |-> "none", val |-> Absent, errcode |-> Absent]
Bodies(vals) == {BadBody, NullBody} \cup {ObjBody(v) : v \in vals \cup {Absent}}

\* The errcodes a server puts in an error body, and the bodies of its error
\* responses: not JSON (a proxy's HTML), or an object with an empty or a real
\* errcode.
ErrCodes == {"M_UNKNOWN"}
ErrorBodies == {BadBody} \cup {ErrBody(c) : c \in ErrCodes \cup {""}}

\* json.Unmarshal(contents, &respErr); respErr.ErrCode: the errcode of a body
\* that is an object carrying one, "" otherwise (the zero RespError).
UnmarshalErrCode(contents) ==
    IF contents.kind = "obj" /\ contents.errcode # Absent
    THEN contents.errcode ELSE ""

\* Mutant of HTTPError: the parsed RespError is wrapped whatever its errcode.
HTTPError_AlwaysWraps(code, contents) ==
    [type |-> "HTTPError", code |-> code, contents |-> contents,
     wrapped |-> RespError(UnmarshalErrCode(contents)),
     message |-> [text |-> "Failed to <method> JSON to <path>",
                  appended |-> NoBody]]

\* MakeRequest's HTTPError for a response that is neither 2xx nor 429: the
\* status, the raw body, the RespError when its ErrCode is not empty, and the
\* message, to which the raw body is appended when nothing is wrapped.
HTTPError(code, contents) ==
    LET wrap == IF UnmarshalErrCode(contents) # ""
                THEN RespError(UnmarshalErrCode(contents)) ELSE NoErr
    IN  [type |-> "HTTPError", code |-> code, contents |-> contents,
         wrapped |-> wrap,
         message |-> [text |-> "Failed to <method> JSON to <path>",
                      appended |-> IF wrap = NoErr THEN contents ELSE NoBody]]

\* Retry-After header values ("" is the header absent): a number of
\* seconds, positive or negative, an HTTP-date (3 seconds after the clock's
\* start, or 2 seconds before it), and a value that is neither.
RetryAfterSeconds == "2"
RetryAfterNegative == "-1"
RetryAfterDate == "Thu, 01 Jan 1970 00:00:03 GMT"
RetryAfterPastDate == "Wed, 31 Dec 1969 23:59:58 GMT"
RetryAfterInvalid == "soon"

\* The values HandleRetry returns no error for.
RetryAfterUsable ==
    {"", RetryAfterSeconds, RetryAfterNegative, RetryAfterDate,
     RetryAfterPastDate}

\* status 0 stands for cli.Client.Do returning an error (no response).
Resp(status, body, ra) == [status |-> status, body |-> body, ra |-> ra]

\* What the server may answer to the attempt that ends an exchange.
FinalResponses(vals) ==
    {Resp(0, BadBody, "")}
    \cup {Resp(200, b, "") : b \in Bodies(vals)}
    \cup {Resp(500, b, "") : b \in ErrorBodies}
    \cup {Resp(429, BadBody, RetryAfterInvalid)}

\* A 429 answer whose Retry-After header lets MakeRequest retry.
RetryResponses(vals) ==
    {Resp(429, b, ra) :
        b \in Bodies(vals), ra \in RetryAfterUsable}

\* The exchanges of one MakeRequest call: up to MaxRetry retryable 429 answers,
\* then a final answer.
RECURSIVE ExchangesOfLen(_, _)
ExchangesOfLen(vals, n) ==
    IF n = 0 THEN {<<f>> : f \in FinalResponses(vals)}
    ELSE {<<r>> \o e : r \in RetryResponses(vals), e \in ExchangesOfLen(vals, n - 1)}

Exchanges(vals) == UNION {ExchangesOfLen(vals, n) : n \in 0..MaxRetry}

\* --------------------------------------------------------------- transport
\* time.Parse(http.TimeFormat, ra) and strconv.Atoi(ra): the instant (seconds
\* on the clock) or the integer the header value denotes, if it denotes one.
ParseTime(ra) ==
    IF ra = RetryAfterDate THEN [ok |-> TRUE, val |-> 3]
    ELSE IF ra = RetryAfterPastDate THEN [ok |-> TRUE, val |-> -2]
    ELSE [ok |-> FALSE, val |-> 0]
Atoi(ra) ==
    IF ra = RetryAfterSeconds THEN [ok |-> TRUE, val |-> 2]
    ELSE IF ra = RetryAfterNegative THEN [ok |-> TRUE, val |-> -1]
    ELSE [ok |-> FALSE, val |-> 0]

\* Mutant of HandleRetry: the Retry-After header is not read; the default
\* is always returned.
HandleRetry_AlwaysDefault(res, duration, now) ==
    [dur |-> duration, err |-> NoErr]

\* HandleRetry: the back-off (seconds) for a 429 response and whether its
\* header is usable; now is the clock time.Until reads.
HandleRetry(res, duration, now) ==
    IF res.ra = "" THEN [dur |-> duration, err |-> NoErr]
    ELSE IF ParseTime(res.ra).ok
         THEN [dur |-> ParseTime(res.ra).val - now, err |-> NoErr]
    ELSE IF Atoi(res.ra).ok
         THEN [dur |-> Atoi(res.ra).val, err |-> NoErr]
    ELSE [dur |-> duration, err |-> ErrRetryAfter]

\* json.NewDecoder(res.Body).Decode(&resBody): decodes into the value resBody
\* points to, allocating it when nil; fields the object lacks are left alone.
Decode(body, resBody) ==
    IF body.kind = "bad" THEN [err |-> ErrDecode, resBody |-> resBody]
    ELSE IF body.kind = "null" THEN [err |-> NoErr, resBody |-> NilPtr]
    ELSE IF body.val = Absent
         THEN [err |-> NoErr,
               resBody |-> IF resBody = NilPtr THEN Struct("") ELSE resBody]
    ELSE [err |-> NoErr, resBody |-> Struct(body.val)]

\* The clock when a call is made (the back-off lengths play no part in what
\* a call returns).
ClockStart == 0

\* MakeRequest over the server's answers to its successive attempts.  On 429
\* the recursive call's returned error is dropped and control falls through
\* to the decode of the 429 response's own body.
RECURSIVE MakeRequest(_, _)
MakeRequest(resps, resBody) ==
    LET res == Head(resps) IN
    IF res.status = 0 THEN [err |-> ErrTransport, resBody |-> resBody]
    ELSE IF res.status = 429 THEN
        LET hr == HandleRetry(res, DefaultSleep, ClockStart) IN
        IF hr.err # NoErr THEN [err |-> hr.err, resBody |-> resBody]
        ELSE LET inner == MakeRequest(Tail(resps), resBody)
             IN  Decode(res.body, inner.resBody)
    ELSE IF res.status \div 100 # 2
        THEN [err |-> HTTPError(res.status, res.body), resBody |-> resBody]
    ELSE Decode(res.body, resBody)

\* CreateFilter: POST the filter document, decode into a nil *RespCreateFilter.
CreateFilter(resps) == MakeRequest(resps, NilPtr)

\* Whether the exchange's last answer is a failure of the request: no
\* response, a status that is not 2xx, or a 2xx body that does not decode.
ExchangeFailed(resps) ==
    LET last == resps[Len(resps)] IN
    \/ last.status \div 100 # 2
    \/ last.body.kind = "bad"

\* Every (result, exchange failed) CreateFilter can have, over all exchanges.
CreateFilterOutcomes ==
    {[r |-> CreateFilter(resps), failed |-> ExchangeFailed(resps)] :
        resps \in Exchanges(FilterIDs)}

\* SyncRequest's query: timeout always; filter and since only when non-empty.
SyncQuery(timeout, since, filterID) ==
    [timeout |-> timeout,
     filter |-> IF filterID # "" THEN filterID ELSE Absent,
     since |-> IF since # "" THEN since ELSE Absent]

\* SyncRequest: GET /sync, decode into a nil *RespSync.
SyncRequest(resps) == MakeRequest(resps, NilPtr)

\* Every result SyncRequest can have, over all exchanges.
SyncRequestOutcomes == {SyncRequest(resps) : resps \in Exchanges(Cursors)}

\* ------------------------------------------------------------------- store
\* The Storer collaborator, as the in-memory store: one cursor and one filter
\* id for the Client's UserID, a load returning the last value saved.
EmptyStore == [nextBatch |-> "", filterID |-> ""]
LoadNextBatch(s) == s.nextBatch
LoadFilterID(s) == s.filterID
SaveNextBatch(s, v) == [s EXCEPT !.nextBatch = v]
SaveFilterID(s, v) == [s EXCEPT !.filterID = v]

\* ------------------------------------------------------------------- state
VARIABLES
    syncingID,      \* Client.syncingID (guarded by syncingMutex)
    syncingMutex,   \* Client.syncingMutex: who holds it
    increments,     \* how many times the run has incremented syncingID
    store,          \* Client.Store, for Client.UserID
    pc,             \* where each Sync invocation stands
    mySyncingID,    \* Sync's local syncingID, captured at its start (kept
                    \* on record after it returns)
    nextBatch,      \* Sync's local nextBatch
    filterID,       \* Sync's local filterID
    resSync,        \* Sync's local resSync
    err,            \* Sync's local err
    req,            \* the query of the long-poll in flight
    ret,            \* the error the invocation returned
    retLine,        \* the return statement it returned from (source line)
    \* history, per invocation
    staleAtReturn,  \* the generation had moved on when it returned
    loadedFilterID, \* what LoadFilterID gave it
    filterFailed,   \* its filter-create exchange ended in a failure (kept
                    \* until its first long-poll is issued)
    lastSave,       \* the cursor of its latest SaveNextBatch call
    saved,          \* the response at hand was passed to SaveNextBatch
    dispatched,     \* the response at hand was passed to ProcessResponse
    stopInFlight,   \* StopSync completed while the long-poll was in flight
    failedReq,      \* the query of the long-poll that just failed (kept
                    \* until the next one is issued)
    hookRet,        \* what OnFailedSync returned for that failure
    resumed,        \* it was started after another had ended fatally (kept
                    \* until its first long-poll succeeds)
    \* one MakeRequest call taken on its own, attempt by attempt
    mrPc,           \* where the call stands
    mrResps,        \* the server's answers to its attempts so far
    mrDeep,         \* it recursed deeper than the answers kept
    mrOut,          \* what it returned: the error and the caller's resBody
    mrReq,          \* its arguments method, httpURL and reqBody
    mrDur,          \* the dur it is about to sleep
    mrNow,          \* the clock, in seconds
    mrSent,         \* history: the requests passed to cli.Client.Do
    mrSlept,        \* history: the durations passed to time.Sleep, and when
    \* the Event Router taken on its own, snapshot by snapshot
    rtPc,           \* where the router stands in the snapshot at hand
    rtSnapshot,     \* the snapshot at hand: a joined room with its state
                    \* events, and the global partitions
    rtEvent,        \* how many events of the partition at hand are done
    rtCalls,        \* the listener invocations made for the snapshot at hand
    roomState,      \* the cached latest known state of each room
    rtBefore,       \* history: the cache when the snapshot was handed over
    rtCount,        \* history: the snapshots handed over so far
    \* one Sync loop watched after it was superseded
    issued,         \* the rank of the latest cursor the server has issued
    stalePolls      \* how many of an invocation's long-polls completed, and
                    \* how many with success, after its generation moved on

locals == <<nextBatch, filterID, resSync, err, req>>
history == <<loadedFilterID, filterFailed, lastSave, saved,
             dispatched, stopInFlight, failedReq, hookRet, resumed>>
result == <<ret, retLine, staleAtReturn>>
counter == <<syncingID, increments>>
lock == <<counter, syncingMutex>>
syncVars == <<lock, store, pc, mySyncingID, locals, result, history>>
transport ==
    <<mrPc, mrResps, mrDeep, mrOut, mrReq, mrDur, mrNow, mrSent, mrSlept>>
router ==
    <<rtPc, rtSnapshot, rtEvent, rtCalls, roomState, rtBefore, rtCount>>
observer == <<stalePolls, issued>>
elsewhere == <<transport, router, observer>>
vars == <<syncVars, transport, router, observer>>

\* The holders of syncingMutex: nobody (the zero Mutex); a Sync invocation p,
\* inside its own incrementSyncingID or getSyncingID call; a StopSync call made
\* from outside the loops, or made from inside a Syncer callback that
\* invocation p is running.
Unlocked == 0
External == 3
FromCallback(p) == External + p
StopCallers == {External} \cup {FromCallback(p) : p \in Procs}

\* Where an invocation is inside a Syncer callback (GetFilterJSON,
\* OnFailedSync, ProcessResponse).
Callbacks == {"createFilter", "onFailedSync", "processResponse"}

\* Invocation p is inside a StopSync call it made from its callback, so the
\* callback has not returned.
InStopSync(p) == syncingMutex = FromCallback(p)

NoReq == [timeout |-> 0, filter |-> Absent, since |-> Absent]
NoHook == [dur |-> "none", err |-> NoErr]

Running(p) == pc[p] \notin {"idle", "done", "panicked"}

\* The invocation is past line 119: it has captured its generation.
HasCaptured(p) == pc[p] \notin {"idle", "incrementSyncingID"}
Captured(p) == Running(p) /\ HasCaptured(p)

NoOut == [err |-> NoErr, resBody |-> NilPtr]

\* No Sync invoked yet, the mutex free, an empty Store.
NoSyncYet ==
    /\ syncingMutex = Unlocked
    /\ increments = 0
    /\ store = EmptyStore
    /\ pc = [p \in Procs |-> "idle"]
    /\ mySyncingID = [p \in Procs |-> 0]
    /\ nextBatch = [p \in Procs |-> ""]
    /\ filterID = [p \in Procs |-> ""]
    /\ resSync = [p \in Procs |-> NilPtr]
    /\ err = [p \in Procs |-> NoErr]
    /\ req = [p \in Procs |-> NoReq]
    /\ ret = [p \in Procs |-> NoErr]
    /\ retLine = [p \in Procs |-> 0]
    /\ staleAtReturn = [p \in Procs |-> FALSE]
    /\ loadedFilterID = [p \in Procs |-> Absent]
    /\ filterFailed = [p \in Procs |-> FALSE]
    /\ lastSave = [p \in Procs |-> Absent]
    /\ saved = [p \in Procs |-> FALSE]
    /\ dispatched = [p \in Procs |-> FALSE]
    /\ stopInFlight = [p \in Procs |-> FALSE]
    /\ failedReq = [p \in Procs |-> NoReq]
    /\ hookRet = [p \in Procs |-> NoHook]
    /\ resumed = [p \in Procs |-> FALSE]

\* A Client as constructed: syncingID has its zero value.
SyncInit == syncingID = 0 /\ NoSyncYet

\* The calls of MakeRequest followed on their own: a long-poll and a
\* filter-create.
Calls ==
    {[method |-> "GET", httpURL |-> "/sync", reqBody |-> Absent],
     [method |-> "POST", httpURL |-> "/filter", reqBody |-> "{}"]}
NoCall == [method |-> Absent, httpURL |-> Absent, reqBody |-> Absent]

\* No MakeRequest call is being followed on its own.
TransportIdle ==
    /\ mrPc = "idle"
    /\ mrResps = << >>
    /\ mrDeep = FALSE
    /\ mrOut = NoOut
    /\ mrReq = NoCall
    /\ mrDur = 0
    /\ mrNow = ClockStart
    /\ mrSent = << >>
    /\ mrSlept = << >>

\* The joined room, and the state events the server can put in a snapshot:
\* a type, a state-key ("" is a real, empty state-key) and a content.  A room
\* has one name and a member entry per state-key.
RoomIDs == {"!r"}
EventTypes == {"m.room.name", "m.room.member"}
StateKeys == {"", "@a"}
Contents == {"x", "y"}
StateEvents ==
    {ev \in [type : EventTypes, stateKey : StateKeys, content : Contents] :
        ev.type = "m.room.name" => ev.stateKey = ""}
StateEventLists == UNION {[1..n -> StateEvents] : n \in 0..MaxEvents}

\* The keys of a room's cached state, and a room nothing is known about.
StateKeyOf(ev) == <<ev.type, ev.stateKey>>
RoomStateKeys == EventTypes \X StateKeys
NoState == [k \in RoomStateKeys |-> Absent]


\* The global partitions of a snapshot, each with no event or one, and the
\* order in which the router walks them after the room partitions.
PresenceLists == {<< >>, <<[type |-> "m.presence"]>>}
AccountDataLists == {<< >>, <<[type |-> "m.push_rules"]>>}
ToDeviceLists == {<< >>, <<[type |-> "m.room_key"]>>}

\* Mutant of GlobalOrder: to-device events are emitted first.
GlobalOrder_ToDeviceFirst == <<"toDevice", "accountData", "presence">>

GlobalOrder == <<"presence", "accountData", "toDevice">>

Snapshots ==
    [room : RoomIDs, events : StateEventLists, presence : PresenceLists,
     accountData : AccountDataLists, toDevice : ToDeviceLists]
\* The snapshots the router is followed on: those with room events only,
\* and those with at most one room event and any global events.
RoomSnapshots ==
    {snap \in Snapshots :
        snap.presence = << >> /\ snap.accountData = << >>
            /\ snap.toDevice = << >>}
GlobalSnapshots == {snap \in Snapshots : Len(snap.events) <= 1}
NoSnapshot ==
    [room |-> Absent, events |-> << >>, presence |-> << >>,
     accountData |-> << >>, toDevice |-> << >>]

\* The events of a partition of the snapshot, by the router's position.
Partition(snap, part) ==
    CASE part = "state" -> snap.events
      [] part = "presence" -> snap.presence
      [] part = "accountData" -> snap.accountData
      [] part = "toDevice" -> snap.toDevice
      [] OTHER -> << >>

\* The partition walked after part: the global ones follow the rooms.
NextPartition(part) ==
    IF part = "state" THEN GlobalOrder[1]
    ELSE IF part = GlobalOrder[1] THEN GlobalOrder[2]
    ELSE IF part = GlobalOrder[2] THEN GlobalOrder[3]
    ELSE "returned"

\* The event types with a listener registered globally, and the
\* invocations the dispatch of one event makes: one per such listener.
GlobalListeners == {"m.room.name", "m.presence", "m.push_rules", "m.room_key"}
NotifyListeners(ev) == IF ev.type \in GlobalListeners THEN <<ev.type>> ELSE << >>

\* Mutant of UpdateState: an entry of the cached state is written once and
\* kept (first-write-wins).
UpdateState_FirstWins(state, ev) ==
    IF state[StateKeyOf(ev)] = Absent
    THEN [state EXCEPT ![StateKeyOf(ev)] = ev.content]
    ELSE state

\* The overlay of one state event on a room's cached state, keyed by
\* (type, state-key).
UpdateState(state, ev) == [state EXCEPT ![StateKeyOf(ev)] = ev.content]

\* An Event Router as constructed: no room known, no snapshot at hand.
RouterIdle ==
    /\ rtPc = "idle"
    /\ rtSnapshot = NoSnapshot
    /\ rtEvent = 0
    /\ rtCalls = << >>
    /\ roomState = [r \in RoomIDs |-> NoState]
    /\ rtBefore = [r \in RoomIDs |-> NoState]
    /\ rtCount = 0

\* No long-poll has been counted.
NotWatched ==
    /\ stalePolls = [p \in Procs |-> [all |-> 0, ok |-> 0]]
    /\ issued = 0

Init == SyncInit /\ TransportIdle /\ RouterIdle /\ NotWatched

\* ----------------------------------------------------------------- actions
\* Mutant of IncrementSyncingID: the increment is lost.
IncrementSyncingID_Lost(id) == id

\* Mutant of IncrementSyncingID: the counter advances by two.
IncrementSyncingID_ByTwo(id) == id + 2

\* incrementSyncingID's cli.syncingID++ on a uint32.  A uint32 is held as the
\* 32-bit two's-complement integer of the same bits (2^32 - 1 is held as -1,
\* 2^31 as -2^31), on which ++ is + 1 and the wrap from 2^32 - 1 to 0 is the
\* step from -1 to 0.
IncrementSyncingID(id) == id + 1

\* The invocation's frame is gone: its locals (and the history kept only
\* while it runs) go back to their zero values, but for the generation it
\* had captured, which stays on record.
DropFrame(p) ==
    /\ UNCHANGED mySyncingID
    /\ nextBatch' = [nextBatch EXCEPT ![p] = ""]
    /\ filterID' = [filterID EXCEPT ![p] = ""]
    /\ resSync' = [resSync EXCEPT ![p] = NilPtr]
    /\ err' = [err EXCEPT ![p] = NoErr]
    /\ req' = [req EXCEPT ![p] = NoReq]
    /\ loadedFilterID' = [loadedFilterID EXCEPT ![p] = Absent]
    /\ lastSave' = [lastSave EXCEPT ![p] = Absent]
    /\ failedReq' = [failedReq EXCEPT ![p] = NoReq]
    /\ resumed' = [resumed EXCEPT ![p] = FALSE]

\* A return statement of Sync at source line `line` with error e.
Return(p, e, line) ==
    /\ pc' = [pc EXCEPT ![p] = "done"]
    /\ ret' = [ret EXCEPT ![p] = e]
    /\ retLine' = [retLine EXCEPT ![p] = line]
    /\ staleAtReturn' = [staleAtReturn EXCEPT ![p] = (syncingID # mySyncingID[p])]
    /\ DropFrame(p)

\* A nil pointer dereference: the goroutine running Sync panics.
Panic(p) ==
    /\ pc' = [pc EXCEPT ![p] = "panicked"]
    /\ DropFrame(p)
    /\ UNCHANGED <<ret, retLine, staleAtReturn>>

\* Sync is called and enters incrementSyncingID: cli.syncingMutex.Lock().
\* The history of the invocation starts empty.
Sync_Start(p) ==
    /\ pc[p] = "idle"
    /\ increments < MaxGen
    /\ syncingMutex = Unlocked
    /\ syncingMutex' = p
    /\ pc' = [pc EXCEPT ![p] = "incrementSyncingID"]
    /\ ret' = [ret EXCEPT ![p] = NoErr]
    /\ retLine' = [retLine EXCEPT ![p] = 0]
    /\ staleAtReturn' = [staleAtReturn EXCEPT ![p] = FALSE]
    /\ filterFailed' = [filterFailed EXCEPT ![p] = FALSE]
    /\ saved' = [saved EXCEPT ![p] = FALSE]
    /\ dispatched' = [dispatched EXCEPT ![p] = FALSE]
    /\ stopInFlight' = [stopInFlight EXCEPT ![p] = FALSE]
    /\ hookRet' = [hookRet EXCEPT ![p] = NoHook]
    /\ resumed' = [resumed EXCEPT ![p] =
                      \E q \in Procs \ {p} :
                          pc[q] = "done" /\ retLine[q] \in {137, 155}]
    /\ UNCHANGED <<counter, mySyncingID, store, nextBatch, filterID,
                   resSync, err, req, loadedFilterID, lastSave, failedReq>>

\* Mutant of Sync_IncrementSyncingID: the value before the increment is
\* returned.
Sync_IncrementSyncingID_ReturnsOld(p) ==
    /\ pc[p] = "incrementSyncingID"
    /\ syncingMutex = p
    /\ syncingID' = IncrementSyncingID(syncingID)
    /\ increments' = increments + 1
    /\ mySyncingID' = [mySyncingID EXCEPT ![p] = syncingID]
    /\ syncingMutex' = Unlocked
    /\ pc' = [pc EXCEPT ![p] = "loadNextBatch"]
    /\ UNCHANGED <<store, nextBatch, filterID, resSync, err, req, result,
                   history>>

\* syncingID := cli.incrementSyncingID(): cli.syncingID++; return
\* cli.syncingID, with the deferred Unlock.
Sync_IncrementSyncingID(p) ==
    /\ pc[p] = "incrementSyncingID"
    /\ syncingMutex = p
    /\ syncingID' = IncrementSyncingID(syncingID)
    /\ increments' = increments + 1
    /\ mySyncingID' = [mySyncingID EXCEPT ![p] = syncingID']
    /\ syncingMutex' = Unlocked
    /\ pc' = [pc EXCEPT ![p] = "loadNextBatch"]
    /\ UNCHANGED <<store, nextBatch, filterID, resSync, err, req, result,
                   history>>

\* Mutant of Sync_LoadNextBatch: the loop starts without the persisted cursor.
Sync_LoadNextBatch_FromScratch(p) ==
    /\ pc[p] = "loadNextBatch"
    /\ nextBatch' = [nextBatch EXCEPT ![p] = ""]
    /\ pc' = [pc EXCEPT ![p] = "loadFilterID"]
    /\ UNCHANGED <<lock, store, mySyncingID, filterID, resSync, err, req,
                   result, history>>

\* nextBatch := cli.Store.LoadNextBatch(cli.UserID)
Sync_LoadNextBatch(p) ==
    /\ pc[p] = "loadNextBatch"
    /\ nextBatch' = [nextBatch EXCEPT ![p] = LoadNextBatch(store)]
    /\ pc' = [pc EXCEPT ![p] = "loadFilterID"]
    /\ UNCHANGED <<lock, store, mySyncingID, filterID, resSync, err, req,
                   result, history>>

\* Mutant of Sync_LoadFilterID: the filter is negotiated whatever was loaded.
Sync_LoadFilterID_AlwaysCreate(p) ==
    /\ pc[p] = "loadFilterID"
    /\ filterID' = [filterID EXCEPT ![p] = LoadFilterID(store)]
    /\ loadedFilterID' = [loadedFilterID EXCEPT ![p] = LoadFilterID(store)]
    /\ pc' = [pc EXCEPT ![p] = "createFilter"]
    /\ UNCHANGED <<lock, store, mySyncingID, nextBatch, resSync, err, req,
                   result, filterFailed, lastSave, saved, dispatched,
                   stopInFlight, failedReq, hookRet, resumed>>

\* filterID := cli.Store.LoadFilterID(cli.UserID); if filterID == "" { ... }
Sync_LoadFilterID(p) ==
    /\ pc[p] = "loadFilterID"
    /\ filterID' = [filterID EXCEPT ![p] = LoadFilterID(store)]
    /\ loadedFilterID' = [loadedFilterID EXCEPT ![p] = LoadFilterID(store)]
    /\ pc' = [pc EXCEPT ![p] =
                IF filterID'[p] = "" THEN "createFilter" ELSE "syncRequest"]
    /\ UNCHANGED <<lock, store, mySyncingID, nextBatch, resSync, err, req,
                   result, filterFailed, lastSave, saved, dispatched,
                   stopInFlight, failedReq, hookRet, resumed>>

\* filterJSON := GetFilterJSON(UserID); resFilter, err := CreateFilter(...);
\* if err != nil { return err }; filterID = resFilter.FilterID
Sync_CreateFilter(p) ==
    /\ pc[p] = "createFilter"
    /\ ~InStopSync(p)
    /\ \E o \in CreateFilterOutcomes :
         /\ filterFailed' = [filterFailed EXCEPT ![p] = o.failed]
         /\ IF o.r.err # NoErr THEN Return(p, o.r.err, 126)
            ELSE IF o.r.resBody = NilPtr THEN Panic(p)
            ELSE /\ filterID' = [filterID EXCEPT ![p] = Field(o.r.resBody)]
                 /\ pc' = [pc EXCEPT ![p] = "saveFilterID"]
                 /\ UNCHANGED <<mySyncingID, nextBatch, resSync, err, req,
                                loadedFilterID, lastSave, failedReq, result,
                                resumed>>
    /\ UNCHANGED <<lock, store, saved, dispatched, stopInFlight, hookRet>>

\* cli.Store.SaveFilterID(cli.UserID, filterID)
Sync_SaveFilterID(p) ==
    /\ pc[p] = "saveFilterID"
    /\ store' = SaveFilterID(store, filterID[p])
    /\ pc' = [pc EXCEPT ![p] = "syncRequest"]
    /\ UNCHANGED <<lock, mySyncingID, locals, result, history>>

\* The loop issues cli.SyncRequest(30000, nextBatch, filterID, false, "").
\* The history of how the loop was entered ends here.
Sync_SendSyncRequest(p) ==
    /\ pc[p] = "syncRequest"
    /\ req' = [req EXCEPT ![p] = SyncQuery(SyncTimeout, nextBatch[p], filterID[p])]
    /\ pc' = [pc EXCEPT ![p] = "inflight"]
    /\ filterFailed' = [filterFailed EXCEPT ![p] = FALSE]
    /\ failedReq' = [failedReq EXCEPT ![p] = NoReq]
    /\ UNCHANGED <<lock, store, mySyncingID, nextBatch, filterID, resSync,
                   err, result, loadedFilterID, lastSave, saved, dispatched,
                   stopInFlight, hookRet, resumed>>

\* Mutant of Sync_RecvSyncResponse: a failed long-poll is dropped and the loop
\* polls again without calling OnFailedSync.
Sync_RecvSyncResponse_DropsError(p) ==
    /\ pc[p] = "inflight"
    /\ \E r \in SyncRequestOutcomes :
         /\ resSync' = [resSync EXCEPT ![p] = r.resBody]
         /\ err' = [err EXCEPT ![p] = r.err]
         /\ pc' = [pc EXCEPT ![p] =
                     IF r.err # NoErr THEN "syncRequest" ELSE "getSyncingID"]
         /\ failedReq' = [failedReq EXCEPT ![p] =
                            IF r.err # NoErr THEN req[p] ELSE NoReq]
         /\ stopInFlight' = [stopInFlight EXCEPT ![p] =
                               IF r.err # NoErr THEN FALSE ELSE stopInFlight[p]]
         /\ resumed' = [resumed EXCEPT ![p] =
                          IF r.err # NoErr THEN resumed[p] ELSE FALSE]
    /\ UNCHANGED <<lock, store, mySyncingID, nextBatch, filterID, req,
                   result, loadedFilterID, filterFailed, lastSave, saved,
                   dispatched, hookRet>>

\* SyncRequest returns: resSync, err := ...; if err != nil { ... }
Sync_RecvSyncResponse(p) ==
    /\ pc[p] = "inflight"
    /\ \E r \in SyncRequestOutcomes :
         /\ resSync' = [resSync EXCEPT ![p] = r.resBody]
         /\ err' = [err EXCEPT ![p] = r.err]
         /\ pc' = [pc EXCEPT ![p] =
                     IF r.err # NoErr THEN "onFailedSync" ELSE "getSyncingID"]
         /\ failedReq' = [failedReq EXCEPT ![p] =
                            IF r.err # NoErr THEN req[p] ELSE NoReq]
         /\ stopInFlight' = [stopInFlight EXCEPT ![p] =
                               IF r.err # NoErr THEN FALSE ELSE stopInFlight[p]]
         /\ resumed' = [resumed EXCEPT ![p] =
                          IF r.err # NoErr THEN resumed[p] ELSE FALSE]
    /\ UNCHANGED <<lock, store, mySyncingID, nextBatch, filterID, req,
                   result, loadedFilterID, filterFailed, lastSave, saved,
                   dispatched, hookRet>>

\* What Syncer.OnFailedSync may return for error e: a back-off, or an error
\* (one of its own, or the one it was given).
HookResults(e) ==
    {[dur |-> "backoff", err |-> NoErr]}
    \cup {[dur |-> "zero", err |-> x] : x \in {ErrHook, e}}

\* Mutant of Sync_OnFailedSync: return err where the code returns err2.
Sync_OnFailedSync_ReturnsErr(p) ==
    /\ pc[p] = "onFailedSync"
    /\ ~InStopSync(p)
    /\ \E h \in HookResults(err[p]) :
         IF h.err # NoErr
         THEN /\ hookRet' = [hookRet EXCEPT ![p] = h]
              /\ Return(p, err[p], 137)
         ELSE /\ pc' = [pc EXCEPT ![p] = "sleep"]
              /\ resSync' = [resSync EXCEPT ![p] = NilPtr]
              /\ err' = [err EXCEPT ![p] = NoErr]
              /\ UNCHANGED <<mySyncingID, nextBatch, filterID, req,
                             loadedFilterID, lastSave, failedReq, result,
                             hookRet, resumed>>
    /\ UNCHANGED <<lock, store, filterFailed, saved, dispatched,
                   stopInFlight>>

\* Mutant of Sync_OnFailedSync: the retry reloads the cursor from the Store.
Sync_OnFailedSync_Reloads(p) ==
    /\ pc[p] = "onFailedSync"
    /\ ~InStopSync(p)
    /\ \E h \in HookResults(err[p]) :
         IF h.err # NoErr
         THEN /\ hookRet' = [hookRet EXCEPT ![p] = h]
              /\ Return(p, h.err, 137)
         ELSE /\ pc' = [pc EXCEPT ![p] = "sleep"]
              /\ resSync' = [resSync EXCEPT ![p] = NilPtr]
              /\ err' = [err EXCEPT ![p] = NoErr]
              /\ nextBatch' = [nextBatch EXCEPT ![p] = LoadNextBatch(store)]
              /\ UNCHANGED <<mySyncingID, filterID, req, loadedFilterID,
                             lastSave, failedReq, result, hookRet, resumed>>
    /\ UNCHANGED <<lock, store, filterFailed, saved, dispatched,
                   stopInFlight>>

\* duration, err2 := cli.Syncer.OnFailedSync(resSync, err); if err2 != nil
\* { return err2 }.  On the other branch resSync and err are dead (the next
\* SyncRequest assigns both) and are put back to their zero values.
Sync_OnFailedSync(p) ==
    /\ pc[p] = "onFailedSync"
    /\ ~InStopSync(p)
    /\ \E h \in HookResults(err[p]) :
         IF h.err # NoErr
         THEN /\ hookRet' = [hookRet EXCEPT ![p] = h]
              /\ Return(p, h.err, 137)
         ELSE /\ pc' = [pc EXCEPT ![p] = "sleep"]
              /\ resSync' = [resSync EXCEPT ![p] = NilPtr]
              /\ err' = [err EXCEPT ![p] = NoErr]
              /\ UNCHANGED <<mySyncingID, nextBatch, filterID, req,
                             loadedFilterID, lastSave, failedReq, result,
                             hookRet, resumed>>
    /\ UNCHANGED <<lock, store, filterFailed, saved, dispatched,
                   stopInFlight>>

\* time.Sleep(duration); continue
Sync_Sleep(p) ==
    /\ pc[p] = "sleep"
    /\ pc' = [pc EXCEPT ![p] = "syncRequest"]
    /\ UNCHANGED <<lock, store, mySyncingID, locals, result, history>>

\* The loop enters getSyncingID: cli.syncingMutex.Lock().
Sync_GetSyncingID(p) ==
    /\ pc[p] = "getSyncingID"
    /\ syncingMutex = Unlocked
    /\ syncingMutex' = p
    /\ pc' = [pc EXCEPT ![p] = "checkSyncingID"]
    /\ UNCHANGED <<counter, store, mySyncingID, locals, result, history>>

\* Mutant of Sync_CheckSyncingID: the generation check is left out.
Sync_CheckSyncingID_Ignored(p) ==
    /\ pc[p] = "checkSyncingID"
    /\ syncingMutex = p
    /\ syncingMutex' = Unlocked
    /\ pc' = [pc EXCEPT ![p] = "saveNextBatch"]
    /\ UNCHANGED <<counter, store, mySyncingID, locals, result, history>>

\* Mutant of Sync_CheckSyncingID: being superseded is reported as an error.
Sync_CheckSyncingID_Error(p) ==
    /\ pc[p] = "checkSyncingID"
    /\ syncingMutex = p
    /\ syncingMutex' = Unlocked
    /\ IF syncingID # mySyncingID[p] THEN Return(p, ErrTransport, 147)
       ELSE /\ pc' = [pc EXCEPT ![p] = "saveNextBatch"]
            /\ UNCHANGED <<mySyncingID, locals, loadedFilterID, lastSave,
                           failedReq, result, resumed>>
    /\ UNCHANGED <<counter, store, filterFailed, saved, dispatched,
                   stopInFlight, hookRet>>

\* Mutant of Sync_CheckSyncingID: getSyncingID returns without Unlock.
Sync_CheckSyncingID_KeepsLock(p) ==
    /\ pc[p] = "checkSyncingID"
    /\ syncingMutex = p
    /\ IF syncingID # mySyncingID[p] THEN Return(p, NoErr, 147)
       ELSE /\ pc' = [pc EXCEPT ![p] = "saveNextBatch"]
            /\ UNCHANGED <<mySyncingID, locals, loadedFilterID, lastSave,
                           failedReq, result, resumed>>
    /\ UNCHANGED <<lock, store, filterFailed, saved,
                   dispatched, stopInFlight, hookRet>>

\* if cli.getSyncingID() != syncingID { return nil }: getSyncingID reads
\* cli.syncingID under the mutex, its deferred Unlock runs, and Sync compares.
Sync_CheckSyncingID(p) ==
    /\ pc[p] = "checkSyncingID"
    /\ syncingMutex = p
    /\ syncingMutex' = Unlocked
    /\ IF syncingID # mySyncingID[p] THEN Return(p, NoErr, 147)
       ELSE /\ pc' = [pc EXCEPT ![p] = "saveNextBatch"]
            /\ UNCHANGED <<mySyncingID, locals, loadedFilterID, lastSave,
                           failedReq, result, resumed>>
    /\ UNCHANGED <<counter, store, filterFailed, saved, dispatched,
                   stopInFlight, hookRet>>

\* Mutant of Sync_SaveNextBatch: the save is not made before the dispatch.
Sync_SaveNextBatch_Late(p) ==
    /\ pc[p] = "saveNextBatch"
    /\ IF resSync[p] = NilPtr
       THEN Panic(p)
       ELSE /\ pc' = [pc EXCEPT ![p] = "processResponse"]
            /\ UNCHANGED <<mySyncingID, locals, loadedFilterID, lastSave,
                           failedReq, result, resumed>>
    /\ UNCHANGED <<lock, store, filterFailed, saved, dispatched,
                   stopInFlight, hookRet>>

\* cli.Store.SaveNextBatch(cli.UserID, resSync.NextBatch)
Sync_SaveNextBatch(p) ==
    /\ pc[p] = "saveNextBatch"
    /\ IF resSync[p] = NilPtr
       THEN /\ Panic(p)
            /\ UNCHANGED <<store, saved>>
       ELSE /\ store' = SaveNextBatch(store, Field(resSync[p]))
            /\ lastSave' = [lastSave EXCEPT ![p] = Field(resSync[p])]
            /\ saved' = [saved EXCEPT ![p] = TRUE]
            /\ pc' = [pc EXCEPT ![p] = "processResponse"]
            /\ UNCHANGED <<mySyncingID, locals, loadedFilterID, failedReq,
                           result, resumed>>
    /\ UNCHANGED <<lock, filterFailed, dispatched, stopInFlight, hookRet>>

\* Mutant of Sync_ProcessResponse: nextBatch = resSync.NextBatch is left out.
Sync_ProcessResponse_NoAdvance(p) ==
    /\ pc[p] = "processResponse"
    /\ ~InStopSync(p)
    /\ \E e \in {NoErr, ErrProcess} :
         IF e # NoErr
         THEN /\ dispatched' = [dispatched EXCEPT ![p] = TRUE]
              /\ Return(p, e, 155)
              /\ UNCHANGED <<saved, stopInFlight>>
         ELSE /\ resSync' = [resSync EXCEPT ![p] = NilPtr]
              /\ pc' = [pc EXCEPT ![p] = "syncRequest"]
              /\ saved' = [saved EXCEPT ![p] = FALSE]
              /\ stopInFlight' = [stopInFlight EXCEPT ![p] = FALSE]
              /\ UNCHANGED <<mySyncingID, nextBatch, filterID, err, req,
                             loadedFilterID, lastSave, failedReq, result,
                             dispatched, resumed>>
    /\ UNCHANGED <<lock, store, filterFailed, hookRet>>

\* Mutant of Sync_ProcessResponse: a failed dispatch rolls the cursor back.
Sync_ProcessResponse_RollsBack(p) ==
    /\ pc[p] = "processResponse"
    /\ ~InStopSync(p)
    /\ \E e \in {NoErr, ErrProcess} :
         IF e # NoErr
         THEN /\ dispatched' = [dispatched EXCEPT ![p] = TRUE]
              /\ store' = SaveNextBatch(store, nextBatch[p])
              /\ Return(p, e, 155)
              /\ UNCHANGED <<saved, stopInFlight>>
         ELSE /\ nextBatch' = [nextBatch EXCEPT ![p] = Field(resSync[p])]
              /\ resSync' = [resSync EXCEPT ![p] = NilPtr]
              /\ pc' = [pc EXCEPT ![p] = "syncRequest"]
              /\ saved' = [saved EXCEPT ![p] = FALSE]
              /\ stopInFlight' = [stopInFlight EXCEPT ![p] = FALSE]
              /\ UNCHANGED <<store, mySyncingID, filterID, err, req,
                             loadedFilterID, lastSave, failedReq, result,
                             dispatched, resumed>>
    /\ UNCHANGED <<lock, filterFailed, hookRet>>

\* if err = cli.Syncer.ProcessResponse(resSync, nextBatch); err != nil
\* { return err }; nextBatch = resSync.NextBatch.  The iteration ends here:
\* resSync is dead and, with the marks of the iteration, is put back to zero.
Sync_ProcessResponse(p) ==
    /\ pc[p] = "processResponse"
    /\ ~InStopSync(p)
    /\ \E e \in {NoErr, ErrProcess} :
         IF e # NoErr
         THEN /\ dispatched' = [dispatched EXCEPT ![p] = TRUE]
              /\ Return(p, e, 155)
              /\ UNCHANGED <<saved, stopInFlight>>
         ELSE /\ nextBatch' = [nextBatch EXCEPT ![p] = Field(resSync[p])]
              /\ resSync' = [resSync EXCEPT ![p] = NilPtr]
              /\ pc' = [pc EXCEPT ![p] = "syncRequest"]
              /\ saved' = [saved EXCEPT ![p] = FALSE]
              /\ stopInFlight' = [stopInFlight EXCEPT ![p] = FALSE]
              /\ UNCHANGED <<mySyncingID, filterID, err, req, loadedFilterID,
                             lastSave, failedReq, result, dispatched, resumed>>
    /\ UNCHANGED <<lock, store, filterFailed, hookRet>>

\* A StopSync call may be made by caller t: from outside at any time, from
\* invocation p's goroutine only while p is inside a Syncer callback.
MayStop(t) ==
    \/ t = External
    \/ \E p \in Procs : t = FromCallback(p) /\ pc[p] \in Callbacks

\* StopSync is called and enters incrementSyncingID: cli.syncingMutex.Lock().
StopSync_Lock(t) ==
    /\ MayStop(t)
    /\ increments < MaxGen
    /\ syncingMutex = Unlocked
    /\ syncingMutex' = t
    /\ UNCHANGED <<counter, store, pc, mySyncingID, locals, result, history>>

\* StopSync: cli.incrementSyncingID(): cli.syncingID++, with the deferred
\* Unlock; StopSync returns.
StopSync(t) ==
    /\ syncingMutex = t
    /\ t \in StopCallers
    /\ syncingID' = IncrementSyncingID(syncingID)
    /\ increments' = increments + 1
    /\ syncingMutex' = Unlocked
    /\ stopInFlight' = [p \in Procs |-> stopInFlight[p] \/ pc[p] = "inflight"]
    /\ UNCHANGED <<store, pc, mySyncingID, locals, result, loadedFilterID,
                   filterFailed, lastSave, saved, dispatched, failedReq, hookRet,
                   resumed>>

Next ==
    \/ \E p \in Procs : Sync_Start(p) /\ UNCHANGED elsewhere
    \/ \E p \in Procs : Sync_IncrementSyncingID(p) /\ UNCHANGED elsewhere
    \/ \E p \in Procs : Sync_LoadNextBatch(p) /\ UNCHANGED elsewhere
    \/ \E p \in Procs : Sync_LoadFilterID(p) /\ UNCHANGED elsewhere
    \/ \E p \in Procs : Sync_CreateFilter(p) /\ UNCHANGED elsewhere
    \/ \E p \in Procs : Sync_SaveFilterID(p) /\ UNCHANGED elsewhere
    \/ \E p \in Procs : Sync_SendSyncRequest(p) /\ UNCHANGED elsewhere
    \/ \E p \in Procs : Sync_RecvSyncResponse(p) /\ UNCHANGED elsewhere
    \/ \E p \in Procs : Sync_OnFailedSync(p) /\ UNCHANGED elsewhere
    \/ \E p \in Procs : Sync_Sleep(p) /\ UNCHANGED elsewhere
    \/ \E p \in Procs : Sync_GetSyncingID(p) /\ UNCHANGED elsewhere
    \/ \E p \in Procs : Sync_CheckSyncingID(p) /\ UNCHANGED elsewhere
    \/ \E p \in Procs : Sync_SaveNextBatch(p) /\ UNCHANGED elsewhere
    \/ \E p \in Procs : Sync_ProcessResponse(p) /\ UNCHANGED elsewhere
    \/ \E t \in StopCallers : StopSync_Lock(t) /\ UNCHANGED elsewhere
    \/ \E t \in StopCallers : StopSync(t) /\ UNCHANGED elsewhere

Spec == Init /\ [][Next]_vars

\* --------------------------------- one Sync loop and the StopSync calls on it
\* A long-poll of invocation p completes with error e: it is counted when
\* the generation is no longer the one p captured (up to MaxPolls).
CountPoll(p, n, e) ==
    IF mySyncingID[p] = syncingID THEN n
    ELSE [all |-> IF n.all < MaxPolls THEN n.all + 1 ELSE n.all,
          ok |-> IF e = NoErr /\ n.ok < MaxPolls THEN n.ok + 1 ELSE n.ok]

\* The invocation followed, and the callers of StopSync there are with it.
Loop == 1
LoopStopCallers == {External, FromCallback(Loop)}

\* A newer call of Sync, followed up to its incrementSyncingID (lines
\* 117-119): what it does to the invocation followed.
Newer == 2

NextLoop ==
    \/ Sync_Start(Loop) /\ UNCHANGED elsewhere
    \/ Sync_IncrementSyncingID(Loop) /\ UNCHANGED elsewhere
    \/ Sync_LoadNextBatch(Loop) /\ UNCHANGED elsewhere
    \/ Sync_LoadFilterID(Loop) /\ UNCHANGED elsewhere
    \/ Sync_CreateFilter(Loop) /\ UNCHANGED elsewhere
    \/ Sync_SaveFilterID(Loop) /\ UNCHANGED elsewhere
    \/ Sync_SendSyncRequest(Loop) /\ UNCHANGED elsewhere
    \/ /\ Sync_RecvSyncResponse(Loop)
       /\ stalePolls' =
            [stalePolls EXCEPT ![Loop] = CountPoll(Loop, @, err'[Loop])]
       /\ UNCHANGED <<transport, router, issued>>
    \/ Sync_OnFailedSync(Loop) /\ UNCHANGED elsewhere
    \/ Sync_Sleep(Loop) /\ UNCHANGED elsewhere
    \/ Sync_GetSyncingID(Loop) /\ UNCHANGED elsewhere
    \/ Sync_CheckSyncingID(Loop) /\ UNCHANGED elsewhere
    \/ Sync_SaveNextBatch(Loop) /\ UNCHANGED elsewhere
    \/ Sync_ProcessResponse(Loop) /\ UNCHANGED elsewhere
    \/ \E t \in LoopStopCallers : StopSync_Lock(t) /\ UNCHANGED elsewhere
    \/ \E t \in LoopStopCallers : StopSync(t) /\ UNCHANGED elsewhere
    \/ Sync_Start(Newer) /\ UNCHANGED elsewhere
    \/ Sync_IncrementSyncingID(Newer) /\ UNCHANGED elsewhere

SpecLoop == Init /\ [][NextLoop]_vars

\* The long-poll of the invocation followed completes with err == nil.
LoopPollSucceeds ==
    /\ Sync_RecvSyncResponse(Loop)
    /\ err'[Loop] = NoErr
    /\ stalePolls' =
         [stalePolls EXCEPT ![Loop] = CountPoll(Loop, @, err'[Loop])]
    /\ UNCHANGED <<transport, router, issued>>

\* Every enabled step is eventually taken (a long-poll completes, a sleep
\* ends, a callback returns, a lock holder unlocks), and a loop that keeps
\* polling has a poll that succeeds.
LoopFairness == WF_vars(NextLoop) /\ SF_vars(LoopPollSucceeds)
SpecLoopFair == Init /\ [][NextLoop]_vars /\ LoopFairness

\* ------------------------------------ a server whose cursors strictly advance
\* The order in which the server issues its cursors ("" is no cursor yet).
CursorRank(c) == IF c = "" THEN 0 ELSE IF c = "a" THEN 1 ELSE 2

\* The cursor a received long-poll carries, if any, is the one after all
\* those issued so far.
IssuesNext(p) ==
    IF err'[p] = NoErr /\ resSync'[p] # NilPtr /\ Field(resSync'[p]) # ""
    THEN /\ CursorRank(Field(resSync'[p])) > issued
         /\ issued' = CursorRank(Field(resSync'[p]))
    ELSE issued' = issued

\* The server keeps to the protocol in an exchange: its 2xx answers are
\* objects that carry next_batch, its other answers carry none.
WellBehaved(resps) ==
    \A i \in 1..Len(resps) :
        IF resps[i].status \div 100 = 2
        THEN resps[i].body.kind = "obj" /\ resps[i].body.val # Absent
        ELSE resps[i].body.val = Absent

\* What SyncRequest can return against such a server.
SyncAnswers ==
    {SyncRequest(resps) : resps \in {e \in Exchanges(Cursors) : WellBehaved(e)}}

\* The long-poll invocation p receives is one such a server answers: it
\* carries no cursor (an error, or a response decoded without next_batch),
\* or the cursor after all those the server has issued so far.
Issues(p) ==
    /\ [err |-> err'[p], resBody |-> resSync'[p]] \in SyncAnswers
    /\ IssuesNext(p)

NextAdvancing ==
    \/ \E p \in Procs : Sync_Start(p) /\ UNCHANGED elsewhere
    \/ \E p \in Procs : Sync_IncrementSyncingID(p) /\ UNCHANGED elsewhere
    \/ \E p \in Procs : Sync_LoadNextBatch(p) /\ UNCHANGED elsewhere
    \/ \E p \in Procs : Sync_LoadFilterID(p) /\ UNCHANGED elsewhere
    \/ \E p \in Procs : Sync_CreateFilter(p) /\ UNCHANGED elsewhere
    \/ \E p \in Procs : Sync_SaveFilterID(p) /\ UNCHANGED elsewhere
    \/ \E p \in Procs : Sync_SendSyncRequest(p) /\ UNCHANGED elsewhere
    \/ \E p \in Procs :
         /\ Sync_RecvSyncResponse(p)
         /\ Issues(p)
         /\ UNCHANGED <<transport, router, stalePolls>>
    \/ \E p \in Procs : Sync_OnFailedSync(p) /\ UNCHANGED elsewhere
    \/ \E p \in Procs : Sync_Sleep(p) /\ UNCHANGED elsewhere
    \/ \E p \in Procs : Sync_GetSyncingID(p) /\ UNCHANGED elsewhere
    \/ \E p \in Procs : Sync_CheckSyncingID(p) /\ UNCHANGED elsewhere
    \/ \E p \in Procs : Sync_SaveNextBatch(p) /\ UNCHANGED elsewhere
    \/ \E p \in Procs : Sync_ProcessResponse(p) /\ UNCHANGED elsewhere
    \/ \E t \in StopCallers : StopSync_Lock(t) /\ UNCHANGED elsewhere
    \/ \E t \in StopCallers : StopSync(t) /\ UNCHANGED elsewhere

SpecAdvancing == Init /\ [][NextAdvancing]_vars

\* A Client late in its life: StopSync has been called 2^32 - 1 times on it,
\* no Sync yet, so syncingID holds the largest uint32.
Uint32Max == -1
InitLate ==
    /\ syncingID = Uint32Max /\ NoSyncYet
    /\ TransportIdle /\ RouterIdle /\ NotWatched
SpecLate == InitLate /\ [][Next]_vars

\* --------------------------------------------- one MakeRequest call, stepwise
\* What a server may answer to one attempt.
Answers == FinalResponses(Cursors) \cup RetryResponses(Cursors)

\* A call of MakeRequest with a nil *RespSync as resBody is about to send.
InitMR ==
    /\ SyncInit
    /\ mrPc = "do"
    /\ mrResps = << >>
    /\ mrDeep = FALSE
    /\ mrOut = NoOut
    /\ mrReq \in Calls
    /\ mrDur = 0
    /\ mrNow = ClockStart
    /\ mrSent = << >>
    /\ mrSlept = << >>
    /\ RouterIdle
    /\ NotWatched

\* cli.Client.Do gives a 429 whose Retry-After HandleRetry accepts: the call
\* goes to time.Sleep(dur).  Up to MaxRetry such answers are kept, with the
\* request sent and the sleep asked for; of a call that recurses deeper only
\* the fact is kept.
MR_Retry ==
    /\ mrPc = "do"
    /\ \E res \in Answers :
         LET hr == HandleRetry(res, DefaultSleep, mrNow) IN
         /\ res.status = 429
         /\ hr.err = NoErr
         /\ IF Len(mrResps) < MaxRetry
            THEN /\ mrResps' = Append(mrResps, res)
                 /\ mrSent' = Append(mrSent, mrReq)
                 /\ mrSlept' = Append(mrSlept, [dur |-> hr.dur, at |-> mrNow])
                 /\ mrDur' = hr.dur
                 /\ UNCHANGED mrDeep
            ELSE /\ mrDeep' = TRUE
                 /\ mrDur' = 0
                 /\ UNCHANGED <<mrResps, mrSent, mrSlept>>
    /\ mrPc' = "sleep"
    /\ UNCHANGED <<mrOut, mrReq, mrNow, syncVars, router, observer>>

\* The sleep ends (at once, when dur is not positive) and
\* cli.MakeRequest(method, httpURL, reqBody, resBody) sends again.
MR_Sleep ==
    /\ mrPc = "sleep"
    /\ mrPc' = "do"
    /\ mrNow' = IF mrDur > 0 THEN mrNow + mrDur ELSE mrNow
    /\ mrDur' = 0
    /\ mrReq' = [method |-> mrReq.method, httpURL |-> mrReq.httpURL,
                 reqBody |-> mrReq.reqBody]
    /\ UNCHANGED <<mrResps, mrDeep, mrOut, mrSent, mrSlept, syncVars, router, observer>>

\* cli.Client.Do fails or gives an answer that ends the exchange; the call,
\* and every call that was waiting on it, returns.
MR_Return ==
    /\ mrPc = "do"
    /\ \E res \in Answers :
         /\ res.status = 429 =>
               HandleRetry(res, DefaultSleep, mrNow).err # NoErr
         /\ mrResps' = Append(mrResps, res)
         /\ mrOut' = MakeRequest(mrResps', NilPtr)
    /\ mrSent' = Append(mrSent, mrReq)
    /\ mrPc' = "returned"
    /\ UNCHANGED <<mrDeep, mrReq, mrDur, mrNow, mrSlept, syncVars, router, observer>>

NextMR ==
    \/ MR_Retry
    \/ MR_Sleep
    \/ MR_Return

\* The goroutine in MakeRequest keeps running; what the server answers is
\* the server's choice.
SpecMR == InitMR /\ [][NextMR]_vars /\ WF_vars(NextMR)

\* ------------------------------------------ the Event Router, event by event
InitRouter == SyncInit /\ TransportIdle /\ RouterIdle /\ NotWatched

\* The Session Controller hands the router a snapshot with one joined room.
Router_ProcessResponse(snap) ==
    /\ rtPc = "idle"
    /\ rtCount < MaxSnapshots
    /\ rtSnapshot' = snap
    /\ rtEvent' = 0
    /\ rtCalls' = << >>
    /\ rtBefore' = roomState
    /\ rtCount' = rtCount + 1
    /\ rtPc' = "state"
    /\ UNCHANGED <<roomState, syncVars, transport, observer>>

\* The router takes the room's next state event, in the order of the
\* snapshot, emits it and overlays it on the room's cached state.
Router_UpdateState ==
    /\ rtPc = "state"
    /\ rtEvent < Len(rtSnapshot.events)
    /\ roomState' =
         [roomState EXCEPT ![rtSnapshot.room] =
            UpdateState(@, rtSnapshot.events[rtEvent + 1])]
    /\ rtCalls' = rtCalls \o NotifyListeners(rtSnapshot.events[rtEvent + 1])
    /\ rtEvent' = rtEvent + 1
    /\ UNCHANGED <<rtPc, rtSnapshot, rtBefore, rtCount, syncVars, transport, observer>>

\* The router emits the next event of the global partition at hand.
Router_EmitGlobal ==
    /\ rtPc \in {"presence", "accountData", "toDevice"}
    /\ rtEvent < Len(Partition(rtSnapshot, rtPc))
    /\ rtCalls' =
         rtCalls \o NotifyListeners(Partition(rtSnapshot, rtPc)[rtEvent + 1])
    /\ rtEvent' = rtEvent + 1
    /\ UNCHANGED <<rtPc, rtSnapshot, roomState, rtBefore, rtCount,
                   syncVars, transport, observer>>

\* The partition at hand is exhausted and another follows it.
Router_NextPartition ==
    /\ rtPc \in {"state", "presence", "accountData", "toDevice"}
    /\ rtEvent = Len(Partition(rtSnapshot, rtPc))
    /\ NextPartition(rtPc) # "returned"
    /\ rtPc' = NextPartition(rtPc)
    /\ rtEvent' = 0
    /\ UNCHANGED <<rtSnapshot, rtCalls, roomState, rtBefore, rtCount,
                   syncVars, transport, observer>>

\* The last partition is exhausted: the snapshot is processed.
Router_Return ==
    /\ rtPc \in {"presence", "accountData", "toDevice"}
    /\ rtEvent = Len(Partition(rtSnapshot, rtPc))
    /\ NextPartition(rtPc) = "returned"
    /\ rtPc' = "returned"
    /\ UNCHANGED <<rtSnapshot, rtEvent, rtCalls, roomState, rtBefore, rtCount,
                   syncVars, transport, observer>>

\* ProcessResponse has returned: what it held of the snapshot is gone, the
\* cached room state stays.
Router_DropFrame ==
    /\ rtPc = "returned"
    /\ rtPc' = "idle"
    /\ rtSnapshot' = NoSnapshot
    /\ rtEvent' = 0
    /\ rtCalls' = << >>
    /\ rtBefore' = roomState
    /\ UNCHANGED <<roomState, rtCount, syncVars, transport, observer>>

NextRouter ==
    \/ \E snap \in RoomSnapshots : Router_ProcessResponse(snap)
    \/ Router_UpdateState
    \/ Router_NextPartition
    \/ Router_Return
    \/ Router_DropFrame

SpecRouter == InitRouter /\ [][NextRouter]_vars

\* The router followed on snapshots with global events.
NextDispatch ==
    \/ \E snap \in GlobalSnapshots : Router_ProcessResponse(snap)
    \/ Router_UpdateState
    \/ Router_EmitGlobal
    \/ Router_NextPartition
    \/ Router_Return
    \/ Router_DropFrame

SpecDispatch == InitRouter /\ [][NextDispatch]_vars

\* ------------------------------------------------------------------ claims
\* The since argument a long-poll query was built from.
SinceOf(q) == IF q.since = Absent THEN "" ELSE q.since

\* C1: whenever Sync is about to hand a response to ProcessResponse, it has
\* already called SaveNextBatch with that response's NextBatch; a response
\* that was dispatched was saved first.
C1_SaveBeforeProcess ==
    \A p \in Procs :
        /\ pc[p] = "processResponse" =>
              saved[p] /\ lastSave[p] = Field(resSync[p])
        /\ dispatched[p] => saved[p]

\* C1 witness: ProcessResponse was called (and failed) for a saved response.
C1_Witness ==
    \E p \in Procs : retLine[p] = 155 /\ dispatched[p] /\ saved[p]

\* C2 (as claimed): every SaveNextBatch call is made while the caller's
\* captured generation is the Client's current syncingID.
C2_NoStaleSave ==
    [][\A p \in Procs :
          (~saved[p] /\ saved'[p]) => mySyncingID[p] = syncingID]_vars

\* C3: once StopSync has completed during a long-poll that then returns
\* successfully, the loop is at its generation check or has returned nil from
\* it, with that response neither saved nor dispatched.
C3_StopDuringPollDiscards ==
    \A p \in Procs :
        stopInFlight[p] =>
            \/ pc[p] \in {"inflight", "getSyncingID", "checkSyncingID"}
            \/ /\ pc[p] = "done"
               /\ retLine[p] = 147
               /\ ret[p] = NoErr
               /\ ~saved[p]
               /\ ~dispatched[p]

\* C3 witness: a loop stopped during its long-poll has returned.
C3_Witness ==
    \E p \in Procs : stopInFlight[p] /\ pc[p] = "done"

\* C4: a long-poll issued after the loop has saved a cursor carries, as its
\* since, the cursor of the loop's latest SaveNextBatch call.
C4_SavedCursorIsNextSince ==
    \A p \in Procs :
        (pc[p] = "inflight" /\ lastSave[p] # Absent) =>
            SinceOf(req[p]) = lastSave[p]

\* C4 witness: a long-poll in flight after a successful iteration.
C4_Witness ==
    \E p \in Procs : pc[p] = "inflight" /\ lastSave[p] \in Cursors

\* C5: overlapping Sync invocations hold distinct captured generations, at
\* most one running invocation's captured generation is the current
\* syncingID, and an invocation whose captured generation is no longer
\* current leaves its generation check by returning nil, with the Store
\* untouched and its response neither saved nor dispatched.
C5_OneGenerationWins ==
    /\ [](\A p, q \in Procs :
            (p # q /\ Captured(p) /\ Captured(q)) =>
                mySyncingID[p] # mySyncingID[q])
    /\ [](Cardinality({p \in Procs :
                          Captured(p) /\ mySyncingID[p] = syncingID}) <= 1)
    /\ [][\A p \in Procs :
            (pc[p] = "checkSyncingID" /\ pc'[p] # pc[p]
                /\ mySyncingID[p] # syncingID) =>
                /\ pc'[p] = "done"
                /\ ret'[p] = NoErr
                /\ store' = store
                /\ lastSave'[p] = Absent
                /\ ~saved'[p]
                /\ ~dispatched'[p]]_vars

\* C5 witness: the invocation that incremented first has returned from its
\* generation check while the later one is running as the current generation.
C5_Witness ==
    \E p, q \in Procs :
        /\ p # q
        /\ pc[p] = "done" /\ retLine[p] = 147 /\ staleAtReturn[p]
        /\ Captured(q) /\ mySyncingID[q] = syncingID

C7_FilterFailureIsFatal ==
    \A p \in Procs :
        filterFailed[p] =>
            /\ pc[p] \notin {"saveFilterID", "syncRequest"}
            /\ pc[p] = "done" => (retLine[p] = 126 /\ ret[p] # NoErr)

C9_HookErrorIsFatal ==
    /\ [](\A p \in Procs :
            (pc[p] = "done" /\ retLine[p] = 137) =>
                /\ ret[p] = hookRet[p].err
                /\ ret[p] # NoErr
                /\ ~saved[p]
                /\ ~dispatched[p])
    /\ [][\A p \in Procs :
            (pc[p] = "onFailedSync" /\ pc'[p] = "done") => store' = store]_vars
    /\ [][\A p \in Procs : pc[p] = "done" => pc'[p] = "done"]_vars

\* C9 witness: a loop ended by the hook's own error after a transport error.
C9_Witness ==
    \E p \in Procs :
        pc[p] = "done" /\ retLine[p] = 137 /\ ret[p] = ErrHook

\* C10: the steps of a failed iteration whose hook asks for a retry (the
\* failed return, the hook, the sleep, the next send) leave the Store, the
\* loop's cursor and its filter id as they were, and the long-poll issued
\* next carries the query of the failed one.
C10_RetryKeepsCursor ==
    /\ [][\A p \in Procs :
            (pc[p] \in {"inflight", "onFailedSync", "sleep"}
                /\ pc'[p] # pc[p]
                /\ pc'[p] \in {"onFailedSync", "sleep", "syncRequest"}) =>
                /\ store' = store
                /\ nextBatch'[p] = nextBatch[p]
                /\ filterID'[p] = filterID[p]]_vars
    /\ [][\A p \in Procs :
            (pc[p] = "syncRequest" /\ pc'[p] = "inflight"
                /\ failedReq[p] # NoReq) =>
                /\ req'[p] = failedReq[p]
                /\ store' = store]_vars

\* C10 witness: after a failed long-poll with a cursor and a back-off, the
\* loop is about to issue the retry.
C10_Witness ==
    \E p \in Procs :
        /\ pc[p] = "syncRequest"
        /\ failedReq[p] # NoReq
        /\ nextBatch[p] \in Cursors

\* C11: when ProcessResponse returns an error, Sync returns that error from
\* line 155 and takes no further step; the step writes nothing to the Store,
\* the response had been saved with its NextBatch, and (no other invocation
\* having been started) the Store holds that NextBatch as the cursor.
C11_ProcessErrorKeepsSave ==
    /\ [][\A p \in Procs :
            (pc[p] = "processResponse" /\ pc'[p] = "done") =>
                /\ ret'[p] = ErrProcess
                /\ retLine'[p] = 155
                /\ saved[p]
                /\ lastSave[p] = Field(resSync[p])
                /\ store' = store
                /\ (\A q \in Procs \ {p} : pc[q] = "idle") =>
                       LoadNextBatch(store') = Field(resSync[p])]_vars
    /\ [][\A p \in Procs :
            (pc[p] = "done" /\ retLine[p] = 155) =>
                (pc'[p] = "done" /\ req'[p] = NoReq)]_vars

\* C11 witness: a loop ended by ProcessResponse's error, the Store holding a
\* cursor.
C11_Witness ==
    \E p \in Procs :
        /\ pc[p] = "done" /\ retLine[p] = 155 /\ ret[p] = ErrProcess
        /\ LoadNextBatch(store) \in Cursors

\* C12: an invocation started after another has ended fatally (from the
\* OnFailedSync branch or from ProcessResponse's error) long-polls, until its
\* first successful response, with since equal to the cursor the Store
\* holds: the value last passed to SaveNextBatch, or none when the Store
\* holds no cursor.
C12_ResumesFromPersistedCursor ==
    \A p \in Procs :
        (resumed[p] /\ pc[p] = "inflight") =>
            /\ SinceOf(req[p]) = LoadNextBatch(store)
            /\ LoadNextBatch(store) = "" => req[p].since = Absent

\* C12 witness: an invocation started after a fatal end is long-polling with
\* the cursor the ended one had saved.
C12_Witness ==
    \E p \in Procs :
        /\ resumed[p] /\ pc[p] = "inflight" /\ req[p].since \in Cursors
        /\ \E q \in Procs \ {p} : retLine[q] = 155

\* C13 (as claimed): a call whose first attempt was answered 429 and whose
\* retry was answered 2xx with a body that decodes returns nil, and the
\* caller's response value is the decoded 2xx body.
C13_RetrySucceeds ==
    (/\ mrPc = "returned" /\ ~mrDeep /\ Len(mrResps) = 2
     /\ mrResps[1].status = 429
     /\ mrResps[2].status \div 100 = 2
     /\ mrResps[2].body.kind # "bad") =>
        /\ mrOut.err = NoErr
        /\ mrOut.resBody = Decode(mrResps[2].body, NilPtr).resBody

\* C14 (as claimed): every MakeRequest call returns to its caller.
C14_MakeRequestReturns == <>(mrPc = "returned")

\* Whether a body parses as a RespError with a non-empty errcode.
ParsesWithErrCode(b) == b.kind = "obj" /\ b.errcode \notin {Absent, ""}

ReleaseMutex ==
    \/ \E p \in Procs : Sync_IncrementSyncingID(p)
    \/ \E p \in Procs : Sync_CheckSyncingID(p)
    \/ \E t \in StopCallers : StopSync(t)

\* C16: a Sync invocation holds syncingMutex only inside incrementSyncingID
\* or getSyncingID, never at a long-poll, a sleep, a Store call or a callback;
\* whoever holds it can release it at once, and whenever it is free a
\* StopSync call (from outside, or from inside a callback an invocation is
\* running) can take it: StopSync never waits on the loop.
C16_StopSyncNeverBlocks ==
    /\ \A p \in Procs :
          syncingMutex = p => pc[p] \in {"incrementSyncingID", "checkSyncingID"}
    /\ syncingMutex # Unlocked => ENABLED ReleaseMutex
    /\ (syncingMutex = Unlocked /\ increments < MaxGen) =>
          \A t \in StopCallers : MayStop(t) => ENABLED StopSync_Lock(t)

\* C16 witness: StopSync, called from inside ProcessResponse, is at its
\* increment while the other invocation's long-poll is in flight.
C16_Witness ==
    \E p, q \in Procs :
        /\ pc[p] = "processResponse" /\ syncingMutex = FromCallback(p)
        /\ pc[q] = "inflight"

\* The order and the successor of uint32 values, on the integers that hold
\* them (a negative integer holds a value of 2^31 or more).
Uint32Less(a, b) == IF (a < 0) = (b < 0) THEN a < b ELSE b < 0
Uint32Succ(a) == IF a = Uint32Max THEN 0 ELSE a + 1

\* A step in which a Sync or a StopSync call leaves incrementSyncingID.
IncrementStep ==
    \/ \E p \in Procs : pc[p] = "incrementSyncingID" /\ pc'[p] = "loadNextBatch"
    \/ syncingMutex \in StopCallers /\ syncingMutex' = Unlocked

\* No two Sync invocations have captured the same generation.
DistinctCaptures ==
    \A p, q \in Procs :
        (p # q /\ HasCaptured(p) /\ HasCaptured(q)) =>
            mySyncingID[p] # mySyncingID[q]

\* C17 (as claimed): syncingID never decreases, each Sync and StopSync call
\* raises it by exactly one, nothing else changes it, and no two Sync
\* invocations capture the same value.
C17_GenerationMonotonic ==
    /\ [][~Uint32Less(syncingID', syncingID)]_vars
    /\ [][IncrementStep =>
            (Uint32Less(syncingID, syncingID')
                /\ syncingID' = Uint32Succ(syncingID))]_vars
    /\ [][~IncrementStep => syncingID' = syncingID]_vars
    /\ []DistinctCaptures

\* C17 (amended): each Sync and StopSync call advances syncingID by exactly
\* one modulo 2^32 and nothing else changes it; it decreases only in the
\* step that wraps it from 2^32 - 1 to 0; Sync invocations of one run (fewer
\* than 2^32 increments apart) capture distinct values.
C17_GenerationAdvancesModulo ==
    /\ [][IncrementStep => syncingID' = Uint32Succ(syncingID)]_vars
    /\ [][~IncrementStep => syncingID' = syncingID]_vars
    /\ [][Uint32Less(syncingID', syncingID) =>
            (syncingID = Uint32Max /\ syncingID' = 0)]_vars
    /\ []DistinctCaptures

\* C17 witness: the counter has wrapped, one invocation having captured the
\* 0 it wrapped to and the other the 1 that followed.
C17_Witness ==
    \E p, q \in Procs :
        /\ HasCaptured(p) /\ mySyncingID[p] = 0
        /\ HasCaptured(q) /\ mySyncingID[q] = 1
        /\ increments >= 2

\* The response invocation p holds carries a later cursor than its since.
CursorAdvanced(p) == CursorRank(Field(resSync[p])) > CursorRank(nextBatch[p])

\* C18 (as claimed), in the form one state shows: with the server issuing a
\* new cursor in each response, two invocations are never both handing to
\* ProcessResponse the snapshot obtained for the same since cursor
\* (ProcessResponse(resSync, nextBatch) is given the since as nextBatch).
C18_AtMostOnce ==
    \A p, q \in Procs :
        (/\ p # q
         /\ pc[p] = "processResponse" /\ CursorAdvanced(p)
         /\ pc[q] = "processResponse" /\ CursorAdvanced(q)) =>
            nextBatch[p] # nextBatch[q]

\* C19: a failed long-poll is never silently dropped.  The step in which
\* SyncRequest returns an error takes the loop to the OnFailedSync call for the
\* request that failed, with the Store untouched; the loop holds an error only
\* there; it leaves the call once, to the sleep before the next poll or to
\* the return of the hook's error at line 137, with the Store untouched; and
\* the sleep is entered from that call only.
C19_FailedSyncReachesHook ==
    /\ [](\A p \in Procs :
            /\ pc[p] = "onFailedSync" =>
                  err[p] # NoErr /\ failedReq[p] = req[p]
            /\ (Running(p) /\ err[p] # NoErr) => pc[p] = "onFailedSync")
    /\ [][\A p \in Procs :
            /\ (pc[p] = "inflight" /\ err'[p] # NoErr) =>
                  /\ pc'[p] = "onFailedSync"
                  /\ failedReq'[p] = req[p]
                  /\ store' = store
            /\ (pc[p] = "onFailedSync" /\ pc'[p] # "onFailedSync") =>
                  /\ pc'[p] \in {"sleep", "done"}
                  /\ store' = store
                  /\ pc'[p] = "done" =>
                        /\ retLine'[p] = 137
                        /\ ret'[p] \in {h.err : h \in HookResults(err[p])}
                        /\ ret'[p] # NoErr
            /\ (pc'[p] = "sleep" /\ pc[p] # "sleep") =>
                  pc[p] = "onFailedSync"
            /\ (pc[p] = "sleep" /\ pc'[p] # "sleep") =>
                  pc'[p] = "syncRequest"]_vars

\* C19 witness: OnFailedSync has been called for a failed long-poll and asked
\* for a back-off; the loop is about to poll again.
C19_Witness ==
    \E p \in Procs : pc[p] = "sleep" /\ failedReq[p] = req[p]

\* The content the latest event of a list gives key k, prior if none does.
LastWrite(events, k, prior) ==
    LET at == {i \in 1..Len(events) : StateKeyOf(events[i]) = k}
    IN  IF at = {} THEN prior
        ELSE events[CHOOSE i \in at : \A j \in at : j <= i].content

\* C20: the state overlay is last-write-wins per (type, state-key).  Once a
\* snapshot is processed, the cached state of its room holds, for each key,
\* the content of the latest state event of the snapshot with that key, and
\* what it held before if the snapshot has none.
C20_LastWriteWins ==
    rtPc = "returned" =>
        \A k \in RoomStateKeys :
            roomState[rtSnapshot.room][k] =
                LastWrite(rtSnapshot.events, k, rtBefore[rtSnapshot.room][k])

\* C20 witness: a processed snapshot whose room has two state events of the
\* same type and state-key with different contents; the cache holds the
\* later one's.
C20_Witness ==
    /\ rtPc = "returned"
    /\ Len(rtSnapshot.events) = 2
    /\ StateKeyOf(rtSnapshot.events[1]) = StateKeyOf(rtSnapshot.events[2])
    /\ rtSnapshot.events[1].content # rtSnapshot.events[2].content
    /\ roomState[rtSnapshot.room][StateKeyOf(rtSnapshot.events[2])] =
          rtSnapshot.events[2].content

\* The positions in the calls made for a snapshot of the invocations of the
\* listeners for one of the given event types.
CallsOf(types) == {i \in 1..Len(rtCalls) : rtCalls[i] \in types}
RoomEventTypes == EventTypes
GlobalEventTypes == {"m.presence", "m.push_rules", "m.room_key"}

\* C21: once a snapshot is processed, the listener registered globally for
\* presence has been invoked once per presence event of the snapshot and the
\* one for to-device once per to-device event (once each for one event of
\* each); every presence invocation precedes every to-device invocation; and
\* every invocation for a room event precedes every one for a global event.
C21_GlobalDispatchOrder ==
    rtPc = "returned" =>
        /\ Cardinality(CallsOf({"m.presence"})) = Len(rtSnapshot.presence)
        /\ Cardinality(CallsOf({"m.room_key"})) = Len(rtSnapshot.toDevice)
        /\ \A i \in CallsOf({"m.presence"}), j \in CallsOf({"m.room_key"}) :
              i < j
        /\ \A i \in CallsOf(RoomEventTypes), j \in CallsOf(GlobalEventTypes) :
              i < j

\* C21 witness: a processed snapshot with one presence event, one to-device
\* event and a room event that has a listener; each listener was invoked.
C21_Witness ==
    /\ rtPc = "returned"
    /\ Len(rtSnapshot.presence) = 1
    /\ Len(rtSnapshot.toDevice) = 1
    /\ CallsOf({"m.presence"}) # {}
    /\ CallsOf({"m.room_key"}) # {}
    /\ CallsOf(RoomEventTypes) # {}

\* The 429 answers kept that the call retried after: all the answers kept
\* but the one it returned on.
Retried == IF mrPc = "returned" THEN Len(mrResps) - 1 ELSE Len(mrResps)

\* Each retried 429 was followed by one time.Sleep: of DefaultSleep seconds
\* for no Retry-After, of N seconds for the integer N, of the time from then
\* until the date for an HTTP-date; and every request sent is the first one.
SleepsThenResends ==
    /\ Len(mrSlept) = Retried
    /\ \A i \in 1..Len(mrSlept) :
          /\ mrResps[i].status = 429
          /\ mrResps[i].ra = "" => mrSlept[i].dur = DefaultSleep
          /\ mrResps[i].ra = RetryAfterSeconds => mrSlept[i].dur = 2
          /\ mrResps[i].ra = RetryAfterDate => mrSlept[i].dur = 3 - mrSlept[i].at
    /\ \A i \in 1..Len(mrSent) : mrSent[i] = mrSent[1]
    /\ mrPc = "do" => Len(mrSent) = Len(mrSlept)
    /\ (mrPc = "returned" /\ ~mrDeep) => Len(mrSent) = Len(mrSlept) + 1

AttemptFails(res) ==
    \/ res.status = 0
    \/ res.status \div 100 # 2 /\ res.status # 429
    \/ res.status \div 100 = 2 /\ res.body.kind = "bad"

\* C23 (as claimed): when a call gets a 429 and the retried call fails, the
\* outer call returns the retried call's failure.
C23_RetryFailureReturned ==
    (/\ mrPc = "returned" /\ ~mrDeep /\ Len(mrResps) = 2
     /\ mrResps[1].status = 429
     /\ AttemptFails(mrResps[2])) =>
        /\ mrOut.err # NoErr
        /\ mrOut.err = MakeRequest(<<mrResps[2]>>, NilPtr).err

\* Invocation p's generation has moved on since it captured it.
Superseded(p) == HasCaptured(p) /\ mySyncingID[p] # syncingID

\* C24 (as claimed): at most one long-poll of the loop completes after
\* StopSync before the loop returns.
C24_OnePollAfterStop == stalePolls[Loop].all <= 1

\* C24 (amended): at most one long-poll of the loop completes with success
\* after StopSync; on that one the loop goes to its generation check and
\* returns nil from line 147, without SaveNextBatch or ProcessResponse.
C24_OneSuccessfulPollAfterStop ==
    /\ stalePolls[Loop].ok <= 1
    /\ stalePolls[Loop].ok = 1 =>
          /\ pc[Loop] \in {"getSyncingID", "checkSyncingID", "done"}
          /\ ~saved[Loop] /\ ~dispatched[Loop]
          /\ pc[Loop] = "done" => ret[Loop] = NoErr /\ retLine[Loop] = 147

\* C24 witness: the loop has returned on the first long-poll that succeeded
\* after StopSync, one that failed having completed before it.
C24_Witness ==
    /\ pc[Loop] = "done"
    /\ retLine[Loop] = 147
    /\ stalePolls[Loop] = [all |-> 2, ok |-> 1]

\* C25: a loop that is superseded while it runs (StopSync, or a newer Sync's
\* increment) eventually returns, provided its long-polls, sleeps and callbacks
\* complete and a later long-poll succeeds.
\* The one way out that is not a return is the nil dereference of lines 128
\* and 153, and it is taken only when no long-poll completed successfully
\* after the loop was superseded.
C25_SupersededLoopReturns ==
    (Superseded(Loop) /\ Running(Loop))
        ~> \/ pc[Loop] = "done"
           \/ pc[Loop] = "panicked" /\ stalePolls[Loop].ok = 0
C25_Witness ==
    /\ pc[Loop] = "done"
    /\ retLine[Loop] = 147
    /\ stalePolls[Loop].all = MaxPolls
    /\ stalePolls[Loop].ok = 1

\* C26 (as claimed): with the server's cursors strictly advancing, the cursor
\* the Store holds is never overwritten with an earlier cursor.
C26_CursorNeverRegresses ==
    [][(store'.nextBatch # store.nextBatch /\ store'.nextBatch # "") =>
          CursorRank(store'.nextBatch) > CursorRank(store.nextBatch)]_vars

\* Invocation p holds the id of a filter its own create request obtained and
\* is about to call Store.SaveFilterID (line 129).
CreatedFilter(p) == pc[p] = "saveFilterID" /\ ~filterFailed[p]

\* C27 (as claimed): no two invocations each had a filter-create request
\* succeed, and SaveFilterID is never called once a filter id is persisted.
C27_FilterCreatedOnce ==
    /\ [](\A p, q \in Procs :
            p # q => ~(CreatedFilter(p) /\ CreatedFilter(q)))
    /\ [][\A p \in Procs :
            (pc[p] = "saveFilterID" /\ pc'[p] = "syncRequest") =>
                store.filterID = ""]_vars

FailedAtFilterAfter(q, p) ==
    /\ pc[q] = "done" /\ retLine[q] = 126
    /\ HasCaptured(p)
    /\ mySyncingID[p] < mySyncingID[q]

\* C29: an invocation that returns at line 126 has incremented the generation
\* and never long-polled; a loop that captured its generation earlier is
\* superseded from then on, and its next generation check returns nil at
\* line 147.
C29_FailedFilterStillSupersedes ==
    /\ [](\A p, q \in Procs :
            (Running(p) /\ FailedAtFilterAfter(q, p)) => Superseded(p))
    /\ [][\A q \in Procs :
            (pc[q] # "done" /\ pc'[q] = "done" /\ retLine'[q] = 126) =>
                /\ pc[q] = "createFilter"
                /\ ret'[q] # NoErr
                /\ mySyncingID[q] # 0
                /\ store' = store]_vars
    /\ [][\A p, q \in Procs :
            (/\ FailedAtFilterAfter(q, p)
             /\ pc[p] = "checkSyncingID" /\ pc'[p] # "checkSyncingID") =>
                /\ pc'[p] = "done"
                /\ retLine'[p] = 147
                /\ ret'[p] = NoErr
                /\ store' = store]_vars
C29_Witness ==
    \E p, q \in Procs :
        /\ FailedAtFilterAfter(q, p)
        /\ syncingID = mySyncingID[q]
        /\ pc[p] = "done" /\ retLine[p] = 147 /\ ret[p] = NoErr

\* C30: StopSync calls made before a Sync do not cancel it.  The invocation
\* captures the generation as its own increment leaves it; the captured
\* generation stays the current one in every step that is not a further
\* increment (a StopSync or a Sync call); and while it is the current one
\* every generation check of the loop passes on to the save of line 153.
C30_StopSyncNotSticky ==
    /\ [][\A p \in Procs :
            (pc[p] = "incrementSyncingID" /\ pc'[p] # "incrementSyncingID") =>
                /\ pc'[p] = "loadNextBatch"
                /\ mySyncingID'[p] = syncingID']_vars
    /\ [][\A p \in Procs :
            (Captured(p) /\ mySyncingID[p] = syncingID /\ Running(p)') =>
                \/ mySyncingID'[p] = syncingID'
                \/ increments' = increments + 1]_vars
    /\ [][\A p \in Procs :
            (/\ pc[p] = "checkSyncingID" /\ pc'[p] # "checkSyncingID"
             /\ mySyncingID[p] = syncingID) =>
                /\ pc'[p] = "saveNextBatch"
                /\ resSync'[p] = resSync[p]]_vars
\* StopSync was called twice with no Sync invoked, and the Sync called
\* afterwards has passed a generation check.
C30_Witness ==
    \E p \in Procs :
        /\ pc[p] = "saveNextBatch"
        /\ mySyncingID[p] = syncingID
        /\ increments = 3
        /\ \A q \in Procs \ {p} : pc[q] = "idle"

\* C31 (as claimed): the duration HandleRetry returned for a 429 answer, which
\* MakeRequest hands to time.Sleep, is never negative.
C31_BackoffNeverNegative ==
    /\ mrDur >= 0
    /\ \A i \in 1..Len(mrSlept) : mrSlept[i].dur >= 0

====
